---- MODULE Spec2Model ----
(***************************************************************************)
(* The scheduling core of training-orchestrator: JobScheduler              *)
(* (src/scheduler.py) driving JobOrchestrator.run_job                      *)
(* (src/orchestrator.py) on one asyncio event loop, with the Redis lock    *)
(* store of scheduler.py:165-169.                                          *)
(*                                                                         *)
(* One action is one run of a callback or coroutine between two            *)
(* suspension points of the event loop.  asyncio.Queue.get() does not      *)
(* suspend while the queue holds an entry and put() never suspends on an   *)
(* unbounded queue, so a worker that finishes a job goes through its       *)
(* finally block and on through the following loop iterations without      *)
(* yielding, until it awaits the backend again or finds the queue empty.   *)
(***************************************************************************)
EXTENDS Integers, FiniteSets, Sequences, Bags, TLC

\* ----------------------------------------------------------------- bounds
\* The dispatch queue is unbounded in the code; fires are cut off here.
MaxQueue == 2
\* Enqueue times run from 0, when the queue is empty, up to MaxTime.
MaxTime == 1
\* TrainingJob.max_retries is any number; the runs explored draw it from
\* 0 .. MaxRetriesBound.
MaxRetriesBound == 6
\* Entries dropped without task_done are counted up to MaxLeaked: fires are
\* cut off when the count has reached it.
MaxLeaked == 2
\* schedule_jobs creates tasks without limit; a cycle that would give a job
\* more than MaxTasks unfinished tasks is cut off here.
MaxTasks == 2

\* ------------------------------------------------- configuration (inputs)
\* JobPriority, scheduler.py:25-29
LOW == 1
NORMAL == 2
HIGH == 3
CRITICAL == 4

\* The values MAX_WORKERS is given (scheduler.py:61, default 5).
MaxWorkersChoices == {1, 2}

\* The registered jobs; job ids are ordered as their strings are.
Jobs == {1, 2}
\* A job id that was never registered: orchestrator.jobs.get gives None for it.
UnknownJob == CHOOSE n \in 1 .. (Cardinality(Jobs) + 1) : n \notin Jobs

\* ScheduledJob.priority
Priority(j) == IF j = 1 THEN LOW ELSE NORMAL
\* ScheduledJob.dependencies as registered: job 1 has none; job 2 has none,
\* or waits for job 1 and may also name a job the orchestrator does not know.
DependencyChoices(j) == IF j = 1 THEN {{}} ELSE {{}, {1}, {1, UnknownJob}}
\* ScheduledJob.max_concurrent (default 1)
MaxConcurrent(j) == IF j = 2 THEN 2 ELSE 1
\* ScheduledJob.timeout_minutes is set (job 1) or None.
HasTimeout(j) == j = 1
\* TrainingJob.max_retries as the jobs are registered.
MaxRetries(j) == IF j = 1 THEN 1 ELSE 0

\* TrainingJob.command
Command == <<"python", "train.py">>
\* TrainingJob.checkpoint_path when it is None.
None == "<None>"
\* TrainingJob.checkpoint_path as the jobs are registered.
CheckpointPath(j) == IF j = 1 THEN "/checkpoints/model" ELSE None
\* The values checkpoint_path is drawn from: None, the empty string, a path.
CheckpointChoices == {None, "", "/checkpoints/model"}
\* The argument that tells the trainer to resume, orchestrator.py:271.
ResumeFlag == "--resume-from-checkpoint"

\* TrainingJob.error_message: None, str(e) of run_job's Exception("Job failed")
\* (orchestrator.py:376-379), or the text the worker sets on a timeout
\* (scheduler.py:196).
NoMessage == "none"
JobFailed == "Job failed"
JobTimeoutExceeded == "Job timeout exceeded"

\* A TrainingJob as its constructor leaves it, orchestrator.py:56-69;
\* started_at and completed_at are kept as set (TRUE) or None (FALSE).
TrainingJob(retries) ==
    [status |-> "pending", retry_count |-> 0, max_retries |-> retries,
     started_at |-> FALSE, completed_at |-> FALSE, error_message |-> NoMessage]

VARIABLES
    max_workers,     \* JobScheduler.max_workers
    jobs,            \* orchestrator.jobs: job id -> TrainingJob
    scheduled_jobs,  \* JobScheduler.scheduled_jobs (its key set)
    triggers,        \* the job ids the APScheduler instance holds a cron trigger for
    dependencies,    \* ScheduledJob.dependencies of each scheduled job
    running_jobs,    \* JobScheduler.running_jobs
    job_queue,       \* JobScheduler.job_queue: a bag of entries
    lock,            \* Redis: job id -> {} (no key) or {holder}
    pc,              \* where each worker coroutine is suspended
    cur,             \* the job a worker is executing: {} or {job}
    sleeping,        \* the seconds of backoff a worker's run_job is sleeping (0: not asleep)
    db,              \* the training_jobs table: job id -> row
    database_enabled,\* JobOrchestrator.database_enabled
    shutdown,        \* stop(): "no" (not called), "joining" (in queue.join()), "stopped"
    tasks,           \* the run_job tasks schedule_jobs has created: a bag of tasks
    job_args,        \* TrainingJob.command and TrainingJob.checkpoint_path of each job
    manifest,        \* the container command of the manifest run_job built last for each job
                     \* (history, kept when hist.on)
    hist,            \* attempts started, failures reported and notifications sent per job, and the entries
                     \* taken from the queue and never marked done, kept when hist.on;
                     \* the jobs whose last registration had enabled == false
    event            \* the callback that ran last (history)

vars == <<max_workers, jobs, scheduled_jobs, triggers, dependencies, running_jobs, job_queue, lock, pc, cur,
         sleeping, db, database_enabled, shutdown, tasks, job_args, manifest, hist, event>>

\* start() creating one worker too many.
WorkerIdsOneMore == 0 .. max_workers

\* Worker ids as start() numbers them, scheduler.py:219-221.
WorkerIds == 0 .. (max_workers - 1)

\* The worker every pool has: start() numbers from 0, scheduler.py:219-221.
FirstWorker == 0

\* The ids workers can have under any choice of max_workers.
AllWorkerIds == UNION {0 .. (m - 1) : m \in MaxWorkersChoices}

NoEvent == [op |-> "none", id |-> 0, lockfail |-> {}, started |-> {}, code |-> 0]

\* ------------------------------------------------------------ the queue
\* The key without its sign.
PriorityKeyUnsigned(p) == p

\* The key _schedule_job computes, scheduler.py:115.
PriorityKey(p) == 0 - p

\* A queue entry (priority, datetime.now(), job_id), scheduler.py:116; level
\* is history: the JobPriority the entry was enqueued with.
Entry(key, t, j, lvl) == [key |-> key, time |-> t, job |-> j, level |-> lvl]

\* Python's order on the tuples (priority, queued_at, job_id).
TupleLess(a, b) ==
    \/ a.key < b.key
    \/ a.key = b.key /\ a.time < b.time
    \/ a.key = b.key /\ a.time = b.time /\ a.job < b.job

TupleLE(a, b) == ~TupleLess(b, a)

\* What datetime.now() can return at an enqueue (scheduler.py:116, 277).
\* Only the order of the times of entries that are queued together shows
\* (TupleLess), so the clock starts again when the queue is empty; otherwise
\* it reads the latest enqueue time still in the queue, or a later one.
Now(q) ==
    IF q = EmptyBag
    THEN {0}
    ELSE LET latest == CHOOSE t \in 0 .. MaxTime :
                           /\ \E e \in BagToSet(q) : e.time = t
                           /\ \A e \in BagToSet(q) : e.time <= t
         IN  {t \in 0 .. MaxTime : latest <= t /\ t <= latest + 1}

\* asyncio.PriorityQueue.put, scheduler.py:116 and 275-279.
Put(q, e) == q (+) SetToBag({e})

\* What asyncio.PriorityQueue.get returns (heappop): the least entry.
Least(q) == CHOOSE e \in BagToSet(q) : \A f \in BagToSet(q) : TupleLE(e, f)

\* Removing one copy of e from q.
Remove(q, e) == q (-) SetToBag({e})

\* --------------------------------------------------------- the scheduler
\* A gate that passes over the ids the orchestrator does not know.
check_dependencies_known_only(j) ==
    \A d \in dependencies[j] : d \in DOMAIN jobs => jobs[d].status = "completed"

\* A dependency check that passes whatever the dependencies are.
check_dependencies_skipped(j) == TRUE

\* _check_dependencies, scheduler.py:119-130
check_dependencies(j) ==
    \A d \in dependencies[j] : d \in DOMAIN jobs /\ jobs[d].status = "completed"

\* _check_concurrency, scheduler.py:132-149
check_concurrency(j) ==
    LET running_count == Cardinality({jid \in running_jobs : jid = j})
    IN  /\ ~(running_count >= MaxConcurrent(j))
        /\ ~(Cardinality(running_jobs) >= max_workers)

\* A fire handler that returns when the concurrency check fails.
schedule_job_gated(j) ==
    /\ event' = [op |-> "fire", id |-> j, lockfail |-> {}, started |-> {}, code |-> 0]
    /\ IF j \notin scheduled_jobs \/ ~check_dependencies(j) \/ ~check_concurrency(j)
       THEN UNCHANGED job_queue
       ELSE /\ BagCardinality(job_queue) < MaxQueue
            /\ \E t \in Now(job_queue) :
                   job_queue' = Put(job_queue, Entry(PriorityKey(Priority(j)), t, j, Priority(j)))
    /\ UNCHANGED <<max_workers, jobs, scheduled_jobs, triggers, dependencies, running_jobs, lock, pc, cur,
                 sleeping, db, database_enabled, shutdown, hist, tasks, job_args, manifest>>

\* _schedule_job, scheduler.py:98-117: the trigger source fires job j.
\* A failed concurrency check is logged and the fire is queued all the same.
schedule_job(j) ==
    /\ event' = [op |-> "fire", id |-> j, lockfail |-> {}, started |-> {}, code |-> 0]
    /\ IF j \notin scheduled_jobs \/ ~check_dependencies(j)
       THEN UNCHANGED job_queue
       ELSE LET logged == check_concurrency(j)
            IN  /\ BagCardinality(job_queue) < MaxQueue
                /\ \E t \in Now(job_queue) :
                       job_queue' = Put(job_queue, Entry(PriorityKey(Priority(j)), t, j, Priority(j)))
    /\ UNCHANGED <<max_workers, jobs, scheduled_jobs, triggers, dependencies, running_jobs, lock, pc, cur,
                 sleeping, db, database_enabled, shutdown, hist, tasks, job_args, manifest>>

\* add_scheduled_job, scheduler.py:64-89, for the ScheduledJob of job j with
\* the dependencies deps, the flag enabled, and a schedule that CronTrigger
\* parses (cron_ok) or rejects.  The job is put in scheduled_jobs and in
\* orchestrator.jobs before the schedule is parsed; a parse error is logged.
\* A job is registered with enabled set at most once here; it can be
\* registered with enabled == false at any time, before or after.
add_scheduled_job(j, deps, enabled, cron_ok) ==
    /\ j \notin scheduled_jobs \/ ~enabled
    /\ event' = [op |-> IF ~enabled THEN "register_disabled"
                        ELSE IF cron_ok THEN "register" ELSE "register_malformed",
                 id |-> j, lockfail |-> {}, started |-> {}, code |-> 0]
    /\ IF ~enabled
       THEN UNCHANGED <<jobs, scheduled_jobs, triggers, dependencies>>
       ELSE /\ scheduled_jobs' = scheduled_jobs \cup {j}
            /\ dependencies' = [i \in DOMAIN dependencies \cup {j} |->
                                    IF i = j THEN deps ELSE dependencies[i]]
            /\ jobs' = [i \in DOMAIN jobs \cup {j} |->
                            IF i = j THEN TrainingJob(MaxRetries(j)) ELSE jobs[i]]
            /\ triggers' = IF cron_ok THEN triggers \cup {j} ELSE triggers
    /\ hist' = [hist EXCEPT !.disabled = IF enabled THEN @ \ {j} ELSE @ \cup {j}]
    /\ UNCHANGED <<max_workers, running_jobs, job_queue, lock, pc, cur, sleeping, db, database_enabled, shutdown, tasks, job_args, manifest>>

\* remove_scheduled_job, scheduler.py:91-96: the job leaves scheduled_jobs
\* and the trigger source; nothing is done for a job that is not scheduled.
\* The queue, the locks, the running set and the job itself are not touched.
remove_scheduled_job(j) ==
    /\ event' = [op |-> "remove", id |-> j, lockfail |-> {}, started |-> {}, code |-> 0]
    /\ IF j \in scheduled_jobs
       THEN /\ scheduled_jobs' = scheduled_jobs \ {j}
            /\ triggers' = triggers \ {j}
       ELSE UNCHANGED <<scheduled_jobs, triggers>>
    /\ UNCHANGED <<max_workers, jobs, dependencies, running_jobs, job_queue, lock, pc, cur, sleeping, db,
                   database_enabled, shutdown, hist, tasks, job_args, manifest>>

\* An update that does not look at the status.
update_job_any_status(j, retries) ==
    /\ IF j \notin DOMAIN db
       THEN /\ event' = [op |-> "update", id |-> j, lockfail |-> {}, started |-> {}, code |-> 404]
            /\ db' = db
       ELSE /\ event' = [op |-> "update", id |-> j, lockfail |-> {}, started |-> {}, code |-> 200]
            /\ db' = [db EXCEPT ![j].max_retries = retries]
    /\ UNCHANGED <<max_workers, jobs, scheduled_jobs, triggers, dependencies, running_jobs, job_queue, lock,
                   pc, cur, sleeping, database_enabled, shutdown, hist, tasks, job_args, manifest>>

\* PUT /jobs/{job_id}, api.py:186-218, with its response code, for a
\* JobUpdate that sets max_retries (JobUpdate has no status field,
\* schemas.py:47-54): 404 without a row, 409 for a running row.
update_job(j, retries) ==
    /\ IF j \notin DOMAIN db
       THEN /\ event' = [op |-> "update", id |-> j, lockfail |-> {}, started |-> {}, code |-> 404]
            /\ db' = db
       ELSE IF db[j].status = "running"
       THEN /\ event' = [op |-> "update", id |-> j, lockfail |-> {}, started |-> {}, code |-> 409]
            /\ db' = db
       ELSE /\ event' = [op |-> "update", id |-> j, lockfail |-> {}, started |-> {}, code |-> 200]
            /\ db' = [db EXCEPT ![j].max_retries = retries]
    /\ UNCHANGED <<max_workers, jobs, scheduled_jobs, triggers, dependencies, running_jobs, job_queue, lock,
                   pc, cur, sleeping, database_enabled, shutdown, hist, tasks, job_args, manifest>>

\* DELETE /jobs/{job_id}, api.py:221-248: 404 without a row, 409 for a
\* running row, else the row is deleted (204).
delete_job(j) ==
    /\ IF j \notin DOMAIN db
       THEN /\ event' = [op |-> "delete", id |-> j, lockfail |-> {}, started |-> {}, code |-> 404]
            /\ db' = db
       ELSE IF db[j].status = "running"
       THEN /\ event' = [op |-> "delete", id |-> j, lockfail |-> {}, started |-> {}, code |-> 409]
            /\ db' = db
       ELSE /\ event' = [op |-> "delete", id |-> j, lockfail |-> {}, started |-> {}, code |-> 204]
            /\ db' = [i \in DOMAIN db \ {j} |-> db[i]]
    /\ UNCHANGED <<max_workers, jobs, scheduled_jobs, triggers, dependencies, running_jobs, job_queue, lock,
                   pc, cur, sleeping, database_enabled, shutdown, hist, tasks, job_args, manifest>>

\* A manual retry that does not look at the status.
retry_job_any_status(j) ==
    /\ IF j \notin DOMAIN db
       THEN /\ event' = [op |-> "retry", id |-> j, lockfail |-> {}, started |-> {}, code |-> 404]
            /\ db' = db
       ELSE /\ event' = [op |-> "retry", id |-> j, lockfail |-> {}, started |-> {}, code |-> 200]
            /\ db' = [db EXCEPT ![j].status = "pending",
                                ![j].error_message = NoMessage,
                                ![j].started_at = FALSE,
                                ![j].completed_at = FALSE]
    /\ UNCHANGED <<max_workers, jobs, scheduled_jobs, triggers, dependencies, running_jobs, job_queue, lock,
                   pc, cur, sleeping, database_enabled, shutdown, hist, tasks, job_args, manifest>>

\* POST /jobs/{job_id}/retry, api.py:251-284, with its response code: 404
\* without a row, 409 unless the row is failed or completed; else the row
\* is set to pending and its error_message, started_at and completed_at are
\* cleared.
retry_job(j) ==
    /\ IF j \notin DOMAIN db
       THEN /\ event' = [op |-> "retry", id |-> j, lockfail |-> {}, started |-> {}, code |-> 404]
            /\ db' = db
       ELSE IF db[j].status \notin {"failed", "completed"}
       THEN /\ event' = [op |-> "retry", id |-> j, lockfail |-> {}, started |-> {}, code |-> 409]
            /\ db' = db
       ELSE /\ event' = [op |-> "retry", id |-> j, lockfail |-> {}, started |-> {}, code |-> 200]
            /\ db' = [db EXCEPT ![j].status = "pending",
                                ![j].error_message = NoMessage,
                                ![j].started_at = FALSE,
                                ![j].completed_at = FALSE]
    /\ UNCHANGED <<max_workers, jobs, scheduled_jobs, triggers, dependencies, running_jobs, job_queue, lock,
                   pc, cur, sleeping, database_enabled, shutdown, hist, tasks, job_args, manifest>>

\* A run-now that goes through the dependency gate and the concurrency check.
trigger_job_now_gated(j) ==
    /\ event' = [op |-> "runnow", id |-> j, lockfail |-> {}, started |-> {}, code |-> 0]
    /\ IF j \notin scheduled_jobs \/ ~check_dependencies(j) \/ ~check_concurrency(j)
       THEN UNCHANGED job_queue
       ELSE /\ BagCardinality(job_queue) < MaxQueue
            /\ \E t \in Now(job_queue) :
                   job_queue' = Put(job_queue, Entry(PriorityKey(CRITICAL), t, j, CRITICAL))
    /\ UNCHANGED <<max_workers, jobs, scheduled_jobs, triggers, dependencies, running_jobs, lock, pc, cur,
                 sleeping, db, database_enabled, shutdown, hist, tasks, job_args, manifest>>

\* trigger_job_now, scheduler.py:268-280; an unknown job raises ValueError.
trigger_job_now(j) ==
    /\ event' = [op |-> "runnow", id |-> j, lockfail |-> {}, started |-> {}, code |-> 0]
    /\ IF j \notin scheduled_jobs
       THEN UNCHANGED job_queue
       ELSE /\ BagCardinality(job_queue) < MaxQueue
            /\ \E t \in Now(job_queue) :
                   job_queue' = Put(job_queue, Entry(PriorityKey(CRITICAL), t, j, CRITICAL))
    /\ UNCHANGED <<max_workers, jobs, scheduled_jobs, triggers, dependencies, running_jobs, lock, pc, cur,
                 sleeping, db, database_enabled, shutdown, hist, tasks, job_args, manifest>>

\* ------------------------------------------------------------ the worker
\* redis set(lock_key, worker_id, nx=True, ex=3600), scheduler.py:167:
\* whether the key can be set.
LockFree(lk, j) == lk[j] = {}

\* The loop of _worker from get() to the call of run_job, scheduler.py:155-169,
\* run while the queue holds entries: an entry whose job is not scheduled or
\* whose lock is held is discarded (continue) and the next one is taken.
\* Yields the queue left, the entry to run ({} when the queue ran empty) and
\* the jobs whose entry was discarded for the lock.
RECURSIVE Drain(_, _)

\* A loop that does not look the job up in scheduled_jobs.
DrainUnscheduled(q, lk) ==
    IF q = EmptyBag
    THEN [q |-> q, taken |-> {}, lockfail |-> {}]
    ELSE LET e == Least(q)
             rest == Remove(q, e)
         IN  IF ~LockFree(lk, e.job)
             THEN LET r == Drain(rest, lk)
                  IN  [r EXCEPT !.lockfail = @ \cup {e.job}]
             ELSE [q |-> rest, taken |-> {e}, lockfail |-> {}]

\* A loop that puts an entry back when its lock is held, and waits.
DrainRequeue(q, lk) ==
    IF q = EmptyBag
    THEN [q |-> q, taken |-> {}, lockfail |-> {}]
    ELSE LET e == Least(q)
             rest == Remove(q, e)
         IN  IF e.job \notin scheduled_jobs
             THEN Drain(rest, lk)
             ELSE IF ~LockFree(lk, e.job)
             THEN [q |-> q, taken |-> {}, lockfail |-> {e.job}]
             ELSE [q |-> rest, taken |-> {e}, lockfail |-> {}]

Drain(q, lk) ==
    IF q = EmptyBag
    THEN [q |-> q, taken |-> {}, lockfail |-> {}]
    ELSE LET e == Least(q)
             rest == Remove(q, e)
         IN  IF e.job \notin scheduled_jobs
             THEN Drain(rest, lk)
             ELSE IF ~LockFree(lk, e.job)
             THEN LET r == Drain(rest, lk)
                  IN  [r EXCEPT !.lockfail = @ \cup {e.job}]
             ELSE [q |-> rest, taken |-> {e}, lockfail |-> {}]

\* sync_job_to_database, orchestrator.py:230-254, on the table d for the
\* job j as it is in memory: nothing without a database or without a row;
\* status, retry_count and error_message are copied, started_at and
\* completed_at only when they are set.
sync_job_to_database(d, j, job) ==
    IF ~database_enabled \/ j \notin DOMAIN d
    THEN d
    ELSE [d EXCEPT ![j].status = job.status,
                   ![j].retry_count = job.retry_count,
                   ![j].error_message = job.error_message,
                   ![j].started_at = IF job.started_at THEN TRUE ELSE @,
                   ![j].completed_at = IF job.completed_at THEN TRUE ELSE @]

\* Python's truth value of an Optional[str]: None and "" are false.
Truthy(p) == p # None /\ p # ""

\* A manifest that resumes whenever a checkpoint path is set.
create_k8s_job_manifest_always_resumes(command, checkpoint_path, retry_count) ==
    [command |-> IF Truthy(checkpoint_path)
                 THEN command \o <<ResumeFlag, checkpoint_path>>
                 ELSE command,
     job_command |-> command]

\* create_k8s_job_manifest, orchestrator.py:266-271, for a job with the
\* given command, checkpoint_path and retry_count: the container command of
\* the manifest (a copy of the job's command, extended when the job is
\* retried and has a checkpoint path), and the job's command after the call.
create_k8s_job_manifest(command, checkpoint_path, retry_count) ==
    [command |-> IF Truthy(checkpoint_path) /\ retry_count > 0
                 THEN command \o <<ResumeFlag, checkpoint_path>>
                 ELSE command,
     job_command |-> command]

\* run_job builds the manifest of job j at retry_count rc, orchestrator.py:350;
\* the manifest is kept when hist.on.
Build(j, rc) ==
    LET built == create_k8s_job_manifest(job_args[j].command, job_args[j].checkpoint_path, rc)
    IN  IF hist.on
        THEN /\ manifest' = [manifest EXCEPT ![j] = built.command]
             /\ job_args' = [job_args EXCEPT ![j].command = built.job_command]
        ELSE UNCHANGED <<job_args, manifest>>

Min(a, b) == IF a <= b THEN a ELSE b

\* The backoff computed before the retry is counted.
BackoffBeforeIncrement(n) == Min(60 * 2 ^ (n - 1), 3600)

\* The seconds run_job sleeps before it runs again, orchestrator.py:394,
\* with n the retry_count after its increment.
Backoff(n) == Min(60 * 2 ^ n, 3600)

\* run_job is entered for job j (orchestrator.py:332-335): one more attempt.
Attempted(h, j) == IF h.on THEN [h EXCEPT !.attempts[j] = @ + 1] ELSE h

\* The backend reported a failure of job j (orchestrator.py:375-378).
Reported(h, j) == IF h.on THEN [h EXCEPT !.failures[j] = @ + 1] ELSE h

\* A run_job that notifies twice.
NotifiedTwice(h, j) == IF h.on THEN [h EXCEPT !.notified[j] = @ + 2] ELSE h

\* notification_service.notify is called for job j, orchestrator.py:370,
\* 389 and 410.
Notified(h, j) == IF h.on THEN [h EXCEPT !.notified[j] = @ + 1] ELSE h

\* n entries were taken from the queue and dropped by continue
\* (scheduler.py:160-169), which skips task_done (scheduler.py:205).
Leaked(h, n) == IF h.on THEN [h EXCEPT !.leaked = @ + n] ELSE h

\* A run_job that puts the job back to Pending.
MarkPending(js, j) == [js EXCEPT ![j].status = "pending", ![j].started_at = TRUE]

\* A run_job that does not set the status.
MarkNothing(js, j) == js

\* A dispatch that starts the job with a fresh retry budget.
MarkRunningFresh(js, j) ==
    [js EXCEPT ![j].status = "running", ![j].started_at = TRUE, ![j].retry_count = 0]

\* run_job up to its first await, orchestrator.py:334-353.
MarkRunning(js, j) == [js EXCEPT ![j].status = "running", ![j].started_at = TRUE]

\* The worker w, back at the top of its loop with the jobs js, the locks lk
\* and the running set rs: it takes entries until one can run
\* (scheduler.py:158-189, orchestrator.py:334-353) or the queue is empty.
Loop(w, js, lk, rs, ds, h) ==
    LET d == Drain(job_queue, lk)
        dropped == BagCardinality(job_queue) - BagCardinality(d.q) - Cardinality(d.taken)
    IN  /\ job_queue' = d.q
        /\ event' = [op |-> "worker", id |-> w, lockfail |-> d.lockfail, started |-> d.taken, code |-> 0]
        /\ sleeping' = [sleeping EXCEPT ![w] = 0]
        /\ IF d.taken = {}
           THEN /\ pc' = [pc EXCEPT ![w] = "get"]
                /\ cur' = [cur EXCEPT ![w] = {}]
                /\ jobs' = js
                /\ db' = ds
                /\ hist' = Leaked(h, dropped)
                /\ lock' = lk
                /\ running_jobs' = rs
                /\ UNCHANGED <<job_args, manifest>>
           ELSE LET j == (CHOOSE e \in d.taken : TRUE).job
                IN  /\ pc' = [pc EXCEPT ![w] = "monitor"]
                    /\ cur' = [cur EXCEPT ![w] = {j}]
                    /\ jobs' = MarkRunning(js, j)
                    /\ db' = sync_job_to_database(ds, j, MarkRunning(js, j)[j])
                    /\ hist' = Leaked(Attempted(h, j), dropped)
                    /\ lock' = [lk EXCEPT ![j] = {w}]
                    /\ running_jobs' = rs \cup {j}
                    /\ Build(j, js[j].retry_count)
    /\ UNCHANGED <<max_workers, scheduled_jobs, triggers, dependencies, database_enabled, shutdown, tasks>>

\* A worker suspended in job_queue.get() is resumed, scheduler.py:158.
WorkerGet(w) ==
    /\ pc[w] = "get"
    /\ job_queue # EmptyBag
    /\ Loop(w, jobs, lock, running_jobs, db, hist)

\* A finally block that leaves the key in place.
ReleaseLockNever(lk, j) == lk

\* The finally block, scheduler.py:201-205: the key is deleted whoever holds it.
ReleaseLock(lk, j) == [lk EXCEPT ![j] = {}]

\* _monitor_job reports success, orchestrator.py:353-374, then the worker's
\* finally block and the next loop iterations.
MonitorSucceeds(w) ==
    /\ pc[w] = "monitor"
    /\ LET j == CHOOSE x \in cur[w] : TRUE
           js == [jobs EXCEPT ![j].status = "completed", ![j].completed_at = TRUE]
       IN  Loop(w, js, ReleaseLock(lock, j), running_jobs \ {j},
                sync_job_to_database(db, j, js[j]), Notified(hist, j))

\* A retry test on one count shared by all jobs.
CanRetryShared(job, j) ==
    LET others == {i \in DOMAIN jobs : i # j /\ jobs[i].retry_count > 0}
    IN  others = {} /\ job.retry_count < job.max_retries

\* The retry test off by one.
CanRetryOnceMore(job, j) == job.retry_count <= job.max_retries

\* The retry test of run_job, orchestrator.py:382.
CanRetry(job, j) == job.retry_count < job.max_retries

\* _monitor_job reports failure, orchestrator.py:375-414: a retry is left
\* (the coroutine sleeps the backoff) or the job is Failed and the worker goes on.
MonitorFails(w) ==
    /\ pc[w] = "monitor"
    /\ LET j == CHOOSE x \in cur[w] : TRUE
       IN  IF CanRetry(jobs[j], j)
           THEN LET js == [jobs EXCEPT ![j].error_message = JobFailed,
                                       ![j].retry_count = @ + 1,
                                       ![j].status = "retrying"]
                IN  /\ jobs' = js
                    /\ db' = sync_job_to_database(db, j, js[j])
                    /\ sleeping' = [sleeping EXCEPT ![w] = Backoff(js[j].retry_count)]
                    /\ hist' = Notified(Reported(hist, j), j)
                    /\ pc' = [pc EXCEPT ![w] = "sleep"]
                    /\ event' = [op |-> "worker", id |-> w, lockfail |-> {}, started |-> {}, code |-> 0]
                    /\ UNCHANGED <<max_workers, scheduled_jobs, triggers, dependencies, running_jobs,
                                   job_queue, lock, cur, database_enabled, shutdown, tasks, job_args, manifest>>
           ELSE LET js == [jobs EXCEPT ![j].error_message = JobFailed,
                                       ![j].status = "failed",
                                       ![j].completed_at = TRUE]
                IN  Loop(w, js, ReleaseLock(lock, j), running_jobs \ {j},
                         sync_job_to_database(db, j, js[j]), Notified(Reported(hist, j), j))

\* The backoff sleep ends and run_job calls itself, orchestrator.py:394-395
\* and 334-353.
BackoffDone(w) ==
    /\ pc[w] = "sleep"
    /\ LET j == CHOOSE x \in cur[w] : TRUE
       IN  /\ jobs' = MarkRunning(jobs, j)
           /\ db' = sync_job_to_database(db, j, MarkRunning(jobs, j)[j])
           /\ hist' = Attempted(hist, j)
           /\ Build(j, jobs[j].retry_count)
    /\ sleeping' = [sleeping EXCEPT ![w] = 0]
    /\ pc' = [pc EXCEPT ![w] = "monitor"]
    /\ event' = [op |-> "worker", id |-> w, lockfail |-> {}, started |-> {}, code |-> 0]
    /\ UNCHANGED <<max_workers, scheduled_jobs, triggers, dependencies, running_jobs, job_queue, lock, cur,
                   database_enabled, shutdown, tasks>>

\* A timeout that is charged to the retry budget.
TimeoutCountsRetry(w) ==
    /\ pc[w] \in {"monitor", "sleep"}
    /\ LET j == CHOOSE x \in cur[w] : TRUE
       IN  /\ HasTimeout(j)
           /\ Loop(w, [jobs EXCEPT ![j].status = "failed",
                                   ![j].retry_count = @ + 1,
                                   ![j].error_message = JobTimeoutExceeded],
                   ReleaseLock(lock, j), running_jobs \ {j}, db, hist)

\* asyncio.wait_for gives up, scheduler.py:182-187 and 193-205: run_job is
\* cancelled where it is suspended and the worker marks the job Failed.
Timeout(w) ==
    /\ pc[w] \in {"monitor", "sleep"}
    /\ LET j == CHOOSE x \in cur[w] : TRUE
       IN  /\ HasTimeout(j)
           /\ Loop(w, [jobs EXCEPT ![j].status = "failed",
                                   ![j].error_message = JobTimeoutExceeded],
                   ReleaseLock(lock, j), running_jobs \ {j}, db, hist)

\* The job as run_job's handler leaves it when the backend has failed,
\* orchestrator.py:376-401.
Handled(job, j) ==
    IF CanRetry(job, j)
    THEN [job EXCEPT !.error_message = JobFailed, !.retry_count = @ + 1, !.status = "retrying"]
    ELSE [job EXCEPT !.error_message = JobFailed, !.status = "failed", !.completed_at = TRUE]

\* A worker that ends when run_job raises.
RunJobRaisesAndWorkerEnds(w) ==
    /\ pc[w] = "monitor"
    /\ LET j == CHOOSE x \in cur[w] : TRUE
       IN  /\ lock' = ReleaseLock(lock, j)
           /\ running_jobs' = running_jobs \ {j}
    /\ pc' = [pc EXCEPT ![w] = "cancelled"]
    /\ cur' = [cur EXCEPT ![w] = {}]
    /\ sleeping' = [sleeping EXCEPT ![w] = 0]
    /\ event' = [op |-> "raised", id |-> w, lockfail |-> {}, started |-> {}, code |-> 0]
    /\ UNCHANGED <<max_workers, jobs, scheduled_jobs, triggers, dependencies, job_queue, db,
                   database_enabled, shutdown, hist, tasks, job_args, manifest>>

\* An error escapes run_job, scheduler.py:198-205: outside run_job's try
\* (orchestrator.py:334-347, the job is left Running) or inside its handler
\* after the transition and its sync (orchestrator.py:376-414, the job is left
\* Retrying, with no retry to come, or Failed).  The worker logs the error,
\* runs its finally block and goes on with its loop.
RunJobRaises(w) ==
    /\ pc[w] = "monitor"
    /\ LET j == CHOOSE x \in cur[w] : TRUE
       IN  \E js \in {jobs, [jobs EXCEPT ![j] = Handled(jobs[j], j)]} :
               Loop(w, js, ReleaseLock(lock, j), running_jobs \ {j},
                    sync_job_to_database(db, j, js[j]), hist)

\* stop() up to its await, scheduler.py:225-236: the trigger source is shut
\* down and every worker task is cancelled; the CancelledError is thrown
\* into each worker where it is suspended.
stop ==
    /\ shutdown = "no"
    /\ shutdown' = "joining"
    /\ triggers' = {}
    /\ pc' = [w \in DOMAIN pc |-> "cancelling"]
    /\ event' = [op |-> "stop", id |-> 0, lockfail |-> {}, started |-> {}, code |-> 0]
    /\ UNCHANGED <<max_workers, jobs, scheduled_jobs, dependencies, running_jobs, job_queue, lock, cur,
                   sleeping, db, database_enabled, hist, tasks, job_args, manifest>>

\* A cancellation that skips the finally block.
CancelledWithoutFinally(w) ==
    /\ pc[w] = "cancelling"
    /\ pc' = [pc EXCEPT ![w] = "cancelled"]
    /\ cur' = [cur EXCEPT ![w] = {}]
    /\ sleeping' = [sleeping EXCEPT ![w] = 0]
    /\ event' = [op |-> "cancelled", id |-> w, lockfail |-> {}, started |-> {}, code |-> 0]
    /\ UNCHANGED <<max_workers, jobs, scheduled_jobs, triggers, dependencies, running_jobs, job_queue,
                   lock, db, database_enabled, shutdown, hist, tasks, job_args, manifest>>

\* The worker w receives its CancelledError, scheduler.py:156-209: in
\* run_job it passes the handlers of Exception, the finally block releases
\* the lock, discards the job and marks the entry done, and the task ends;
\* in get() the task just ends.  The job keeps the status it has.
Cancelled(w) ==
    /\ pc[w] = "cancelling"
    /\ pc' = [pc EXCEPT ![w] = "cancelled"]
    /\ cur' = [cur EXCEPT ![w] = {}]
    /\ sleeping' = [sleeping EXCEPT ![w] = 0]
    /\ IF cur[w] = {}
       THEN UNCHANGED <<lock, running_jobs>>
       ELSE LET j == CHOOSE x \in cur[w] : TRUE
            IN  /\ lock' = ReleaseLock(lock, j)
                /\ running_jobs' = running_jobs \ {j}
    /\ event' = [op |-> "cancelled", id |-> w, lockfail |-> {}, started |-> {}, code |-> 0]
    /\ UNCHANGED <<max_workers, jobs, scheduled_jobs, triggers, dependencies, job_queue, db,
                   database_enabled, shutdown, hist, tasks, job_args, manifest>>

\* The queue's count of unfinished entries: those in the queue, those a
\* worker is executing, and those dropped without task_done.
unfinished_tasks ==
    BagCardinality(job_queue) + Cardinality({w \in DOMAIN cur : cur[w] # {}}) + hist.leaked

\* job_queue.join() returns, scheduler.py:236-238: no entry is unfinished.
JoinReturns ==
    /\ shutdown = "joining"
    /\ unfinished_tasks = 0
    /\ shutdown' = "stopped"
    /\ event' = [op |-> "stopped", id |-> 0, lockfail |-> {}, started |-> {}, code |-> 0]
    /\ UNCHANGED <<max_workers, jobs, scheduled_jobs, triggers, dependencies, running_jobs, job_queue, lock,
                   pc, cur, sleeping, db, database_enabled, hist, tasks, job_args, manifest>>

\* ------------------------------------------------------- the environment
\* The holder of a key left by a worker whose process died with the key set:
\* no worker of this scheduler.
CrashedWorker == CHOOSE n \in 0 .. Cardinality(AllWorkerIds) : n \notin AllWorkerIds

\* A key set without ex: it stays until it is deleted.
LockStays(j) ==
    /\ lock[j] # {}
    /\ event' = NoEvent
    /\ UNCHANGED <<max_workers, jobs, scheduled_jobs, triggers, dependencies, running_jobs, job_queue, lock, pc, cur,
                 sleeping, db, database_enabled, shutdown, hist, tasks, job_args, manifest>>

\* The lock key of job j outlives its ex=3600 seconds, scheduler.py:167.
LockExpires(j) ==
    /\ lock[j] # {}
    /\ lock' = [lock EXCEPT ![j] = {}]
    /\ event' = NoEvent
    /\ UNCHANGED <<max_workers, jobs, scheduled_jobs, triggers, dependencies, running_jobs, job_queue, pc, cur,
                 sleeping, db, database_enabled, shutdown, hist, tasks, job_args, manifest>>

\* ------------------------------------------------- the polling loop
\* The run_job tasks of the job j that have not returned.
RunJobTasks(j) ==
    LET of_j == {t \in BagToSet(tasks) : t.id = j}
    IN  BagCardinality([t \in of_j |-> CopiesIn(t, tasks)])

\* TrainingJob.from_db_model, orchestrator.py:71-87: a new TrainingJob with
\* the fields of the row.
from_db_model(row) ==
    [status |-> row.status, retry_count |-> row.retry_count, max_retries |-> row.max_retries,
     started_at |-> row.started_at, completed_at |-> row.completed_at,
     error_message |-> row.error_message]

\* The rows load_jobs_from_database asks for, orchestrator.py:218-220.
LoadedRows(d) == {j \in DOMAIN d : d[j].status \in {"pending", "running", "retrying"}}

\* load_jobs_from_database, orchestrator.py:209-228, on the jobs js and the
\* table d: every row that is pending, running or retrying replaces the job
\* in self.jobs by a new object; when the query fails (ok is FALSE) the
\* error is logged and nothing is loaded.
load_jobs_from_database(js, d, ok) ==
    IF ~database_enabled \/ ~ok
    THEN js
    ELSE [j \in DOMAIN js \cup LoadedRows(d) |->
             IF j \in LoadedRows(d) THEN from_db_model(d[j]) ELSE js[j]]

\* sync_job_to_database with its try/except, orchestrator.py:235-253: the
\* row is written, or the session fails (ok is FALSE), the error is logged
\* and the row stays as it was.
SyncOutcome(d, j, job, ok) == IF ok THEN sync_job_to_database(d, j, job) ELSE d

\* The tasks b after a load has replaced the jobs ids in self.jobs: the
\* object a task of such a job holds is no longer the one in self.jobs.
Detached(b, ids) ==
    LET image(t) == IF t.id \in ids THEN [t EXCEPT !.current = FALSE] ELSE t
        images == {image(t) : t \in BagToSet(b)}
    IN  [u \in images |->
            IF u.id \in ids
            THEN CopiesIn(u, b) + CopiesIn([u EXCEPT !.current = TRUE], b)
            ELSE CopiesIn(u, b)]

\* What a task writes to its job is seen in self.jobs when the task's
\* object is the one self.jobs holds.
Written(js, t, job) == IF t.current THEN [js EXCEPT ![t.id] = job] ELSE js

\* One cycle of schedule_jobs, orchestrator.py:445-456, up to its sleep,
\* and the tasks it has created up to their first await (run_job,
\* orchestrator.py:334-353): the jobs are loaded again, and for every job
\* that is Pending in self.jobs a run_job task is created, which marks the
\* job Running and saves it.
schedule_jobs(load_ok, save_ok) ==
    LET loaded == load_jobs_from_database(jobs, db, load_ok)
        replaced == IF load_ok THEN LoadedRows(db) ELSE {}
        pending == {j \in DOMAIN loaded : loaded[j].status = "pending"}
        started == [j \in DOMAIN loaded |->
                       IF j \in pending THEN MarkRunning(loaded, j)[j] ELSE loaded[j]]
        created == [t \in {[id |-> j, job |-> started[j], pc |-> "monitor", current |-> TRUE] :
                             j \in pending} |-> 1]
    IN  /\ database_enabled
        /\ \A j \in pending : RunJobTasks(j) < MaxTasks
        /\ jobs' = started
        /\ tasks' = Detached(tasks, replaced) (+) created
        /\ db' = [j \in DOMAIN db |->
                     IF j \in pending THEN SyncOutcome(db, j, started[j], save_ok)[j] ELSE db[j]]
        /\ manifest' = [j \in DOMAIN manifest |->
                           IF j \in pending /\ hist.on
                           THEN create_k8s_job_manifest(job_args[j].command,
                                                        job_args[j].checkpoint_path,
                                                        started[j].retry_count).command
                           ELSE manifest[j]]
        /\ event' = [op |-> "poll", id |-> 0, lockfail |-> {}, started |-> pending, code |-> 0]
        /\ UNCHANGED <<max_workers, scheduled_jobs, triggers, dependencies, running_jobs, job_queue,
                       lock, pc, cur, sleeping, database_enabled, shutdown, hist, job_args>>

\* The task t goes on as next: it has returned (next is {}) or it is the
\* task next.
Resume(t, next) == (tasks (-) SetToBag({t})) (+) SetToBag(next)

\* _monitor_job of the task t reports success, orchestrator.py:355-373.
TaskSucceeds(t, save_ok) ==
    /\ t.pc = "monitor"
    /\ LET job == [t.job EXCEPT !.status = "completed", !.completed_at = TRUE]
       IN  /\ jobs' = Written(jobs, t, job)
           /\ db' = SyncOutcome(db, t.id, job, save_ok)
    /\ tasks' = Resume(t, {})
    /\ event' = [op |-> "task", id |-> t.id, lockfail |-> {}, started |-> {}, code |-> 0]
    /\ UNCHANGED <<max_workers, scheduled_jobs, triggers, dependencies, running_jobs, job_queue,
                   lock, pc, cur, sleeping, database_enabled, shutdown, hist, job_args, manifest>>

\* _monitor_job of the task t reports failure, orchestrator.py:375-414: a
\* retry is left and the task sleeps the backoff, or the job is Failed and
\* the task returns.
TaskFails(t, save_ok) ==
    /\ t.pc = "monitor"
    /\ LET job == Handled(t.job, t.id)
       IN  /\ jobs' = Written(jobs, t, job)
           /\ db' = SyncOutcome(db, t.id, job, save_ok)
           /\ tasks' = Resume(t, IF job.status = "retrying"
                                 THEN {[t EXCEPT !.job = job, !.pc = "sleep"]}
                                 ELSE {})
    /\ event' = [op |-> "task", id |-> t.id, lockfail |-> {}, started |-> {}, code |-> 0]
    /\ UNCHANGED <<max_workers, scheduled_jobs, triggers, dependencies, running_jobs, job_queue,
                   lock, pc, cur, sleeping, database_enabled, shutdown, hist, job_args, manifest>>

\* The backoff sleep of the task t is over, orchestrator.py:394-395: run_job
\* is entered again, up to its first await.
TaskBackoffDone(t, save_ok) ==
    /\ t.pc = "sleep"
    /\ LET job == MarkRunning([j \in {t.id} |-> t.job], t.id)[t.id]
       IN  /\ jobs' = Written(jobs, t, job)
           /\ db' = SyncOutcome(db, t.id, job, save_ok)
           /\ tasks' = Resume(t, {[t EXCEPT !.job = job, !.pc = "monitor"]})
           /\ Build(t.id, job.retry_count)
    /\ event' = [op |-> "task", id |-> t.id, lockfail |-> {}, started |-> {}, code |-> 0]
    /\ UNCHANGED <<max_workers, scheduled_jobs, triggers, dependencies, running_jobs, job_queue,
                   lock, pc, cur, sleeping, database_enabled, shutdown, hist>>

\* -------------------------------------------------------- specification
\* A table without rows.
NoRows == [j \in {} |-> TrainingJob(0)]

\* The state after the jobs are registered (add_scheduled_job,
\* scheduler.py:64-89) and start() has created the workers (211-223), with
\* MAX_WORKERS = n, the retry budgets retries and the dependencies deps; the lock store holds the keys
\* of the jobs in stale, left there by a worker of a process that has died;
\* the jobs have the checkpoint paths paths.
Registered(n, retries, deps, stale, database, observe, paths) ==
    /\ n \in MaxWorkersChoices
    /\ max_workers = n
    /\ jobs = [j \in Jobs |-> TrainingJob(retries[j])]
    /\ scheduled_jobs = Jobs
    /\ triggers = Jobs
    /\ \A j \in Jobs : deps[j] \subseteq Jobs \cup {UnknownJob}
    /\ dependencies = deps
    /\ running_jobs = {}
    /\ job_queue = EmptyBag
    /\ lock = [j \in Jobs |-> IF j \in stale THEN {CrashedWorker} ELSE {}]
    /\ pc = [w \in WorkerIds |-> "get"]
    /\ cur = [w \in WorkerIds |-> {}]
    /\ sleeping = [w \in WorkerIds |-> 0]
    /\ database_enabled = database
    /\ db = IF database THEN [j \in Jobs |-> TrainingJob(retries[j])] ELSE NoRows
    /\ shutdown = "no"
    /\ tasks = EmptyBag
    /\ job_args = [j \in Jobs |-> [command |-> Command, checkpoint_path |-> paths[j]]]
    /\ manifest = [j \in Jobs |-> << >>]
    /\ hist = [on |-> observe, attempts |-> [j \in Jobs |-> 0], failures |-> [j \in Jobs |-> 0],
             notified |-> [j \in Jobs |-> 0], leaked |-> 0, disabled |-> {}]
    /\ event = NoEvent

\* The same with the checkpoint paths of CheckpointPath.
Configured(n, retries, deps, stale, database, observe) ==
    Registered(n, retries, deps, stale, database, observe, [j \in Jobs |-> CheckpointPath(j)])

\* The same with the retry budgets of MaxRetries, no database, and no
\* history kept.
Started(n, deps, stale) ==
    Configured(n, [j \in Jobs |-> MaxRetries(j)], deps, stale, FALSE, FALSE)

\* Two workers; job 2 waits for job 1.
Init == Started(2, [j \in Jobs |-> IF j = 1 THEN {} ELSE {1}], {})

\* One worker; job 2 also names a dependency that is not registered.
SingleWorkerInit == Started(1, [j \in Jobs |-> IF j = 1 THEN {} ELSE {1, UnknownJob}], {})

Next ==
    \/ \E j \in triggers : schedule_job(j)
    \/ \E j \in Jobs : trigger_job_now(j)
    \/ \E w \in WorkerIds : WorkerGet(w)
    \/ \E w \in WorkerIds : MonitorSucceeds(w)
    \/ \E w \in WorkerIds : MonitorFails(w)
    \/ \E w \in WorkerIds : BackoffDone(w)
    \/ \E w \in WorkerIds : Timeout(w)
    \/ \E j \in Jobs : LockExpires(j)

Spec == Init /\ [][Next]_vars

SingleWorkerSpec == SingleWorkerInit /\ [][Next]_vars

\* The event loop resumes every coroutine that is ready: a worker whose
\* get() can return, a worker whose backend call has an outcome, a worker
\* whose backoff sleep is over (a worker is at one of these places at a
\* time).  Fires, run-now requests, timeouts and lock expiry are left to the
\* environment.
WorkerStep(w) ==
    /\ w \in WorkerIds
    /\ WorkerGet(w) \/ MonitorSucceeds(w) \/ MonitorFails(w) \/ BackoffDone(w)

Fairness == \A w \in AllWorkerIds : WF_vars(WorkerStep(w))

\* One worker; job 2 waits for job 1.
FairInit == Started(1, [j \in Jobs |-> IF j = 1 THEN {} ELSE {1}], {})

FairSpec == FairInit /\ [][Next]_vars /\ Fairness

\* The scheduler as its constructor and start() leave it, scheduler.py:47-62
\* and 211-223, with one worker and no job registered yet.
RegInit ==
    /\ max_workers = 1
    /\ jobs = [j \in {} |-> TrainingJob(0)]
    /\ scheduled_jobs = {}
    /\ triggers = {}
    /\ dependencies = [j \in {} |-> {}]
    /\ running_jobs = {}
    /\ job_queue = EmptyBag
    /\ lock = [j \in Jobs |-> {}]
    /\ pc = [w \in WorkerIds |-> "get"]
    /\ cur = [w \in WorkerIds |-> {}]
    /\ sleeping = [w \in WorkerIds |-> 0]
    /\ database_enabled = FALSE
    /\ db = NoRows
    /\ shutdown = "no"
    /\ tasks = EmptyBag
    /\ job_args = [j \in Jobs |-> [command |-> Command, checkpoint_path |-> CheckpointPath(j)]]
    /\ manifest = [j \in Jobs |-> << >>]
    /\ hist = [on |-> FALSE, attempts |-> [j \in Jobs |-> 0], failures |-> [j \in Jobs |-> 0],
             notified |-> [j \in Jobs |-> 0], leaked |-> 0, disabled |-> {}]
    /\ event = NoEvent

\* Jobs are registered while the scheduler runs.
RegNext ==
    \/ Next
    \/ \E j \in Jobs : \E deps \in DependencyChoices(j) :
           \E enabled \in BOOLEAN : \E cron_ok \in BOOLEAN :
               add_scheduled_job(j, deps, enabled, cron_ok)

RegSpec == RegInit /\ [][RegNext]_vars

\* One worker, started on a lock store that holds a stale key for each job.
CrashInit == Started(1, [j \in Jobs |-> IF j = 1 THEN {} ELSE {1}], Jobs)

\* Redis drops a key when its expiry time has passed.
Expiry == \A j \in Jobs : WF_vars(LockExpires(j))

CrashSpec == CrashInit /\ [][Next]_vars /\ Fairness /\ Expiry

\* One worker, two jobs without dependencies and with any retry budgets,
\* and the attempts and failures of each job counted.
RunInit ==
    \E retries \in [Jobs -> 0 .. MaxRetriesBound] :
        Configured(1, retries, [j \in Jobs |-> {}], {}, FALSE, TRUE)

\* The first fire of job j: the job is Pending and not in the queue.
FirstFire(j) ==
    /\ jobs[j].status = "pending"
    /\ \A e \in BagToSet(job_queue) : e.job # j
    /\ schedule_job(j)

\* Each job is fired once and run to its end: no run-now, no timeout, no
\* lock expiry.
RunNext ==
    \/ \E j \in triggers : FirstFire(j)
    \/ \E w \in WorkerIds : WorkerGet(w)
    \/ \E w \in WorkerIds : MonitorSucceeds(w)
    \/ \E w \in WorkerIds : MonitorFails(w)
    \/ \E w \in WorkerIds : BackoffDone(w)

RunSpec == RunInit /\ [][RunNext]_vars /\ Fairness

\* The same with a backend that fails every attempt.
FailNext ==
    \/ \E j \in triggers : FirstFire(j)
    \/ \E w \in WorkerIds : WorkerGet(w)
    \/ \E w \in WorkerIds : MonitorFails(w)
    \/ \E w \in WorkerIds : BackoffDone(w)

FailSpec == RunInit /\ [][FailNext]_vars /\ Fairness

\* One worker with the database enabled and a row for each job, as
\* POST /jobs creates it (api.py:94-131).
ApiInit ==
    Configured(1, [j \in Jobs |-> MaxRetries(j)], [j \in Jobs |-> IF j = 1 THEN {} ELSE {1}],
               {}, TRUE, FALSE)

\* The scheduler and the API's manual retry on the same table.
ApiNext ==
    \/ Next
    \/ \E j \in Jobs \cup {UnknownJob} : retry_job(j)

ApiSpec == ApiInit /\ [][ApiNext]_vars

\* The ids update and delete requests are made for: job 1, which has
\* retries and a timeout, and an id without a row.
RequestIds == {1, UnknownJob}

\* Two workers, two jobs without dependencies and with any retry budgets,
\* each fired once, so that the two executions overlap in every way.
ConcurrentInit ==
    \E retries \in [Jobs -> 0 .. MaxRetriesBound] :
        Configured(2, retries, [j \in Jobs |-> {}], {}, FALSE, TRUE)

ConcurrentSpec == ConcurrentInit /\ [][RunNext]_vars

\* Two workers, no dependencies, and the entries dropped without task_done
\* counted.
LeakInit ==
    Configured(2, [j \in Jobs |-> MaxRetries(j)], [j \in Jobs |-> {}], {}, FALSE, TRUE)

\* A fire of job j before its first run has finished: the trigger's period
\* is shorter than the job's run.
FireUnfinished(j) ==
    /\ hist.leaked < MaxLeaked
    /\ ~jobs[j].completed_at
    /\ schedule_job(j)

\* Fires of unfinished jobs and the workers; no run-now, no timeout, no
\* lock expiry.
LeakNext ==
    \/ \E j \in triggers : FireUnfinished(j)
    \/ \E w \in WorkerIds : WorkerGet(w)
    \/ \E w \in WorkerIds : MonitorSucceeds(w)
    \/ \E w \in WorkerIds : MonitorFails(w)
    \/ \E w \in WorkerIds : BackoffDone(w)

LeakSpec == LeakInit /\ [][LeakNext]_vars

\* The scheduler with the database enabled and a row for each job; the
\* table is written by run_job only.
SyncSpec == ApiInit /\ [][Next]_vars

\* One worker, two jobs without dependencies, with any retry budgets and any
\* checkpoint paths, and the attempts of each job counted.
ManifestInit ==
    \E retries \in [Jobs -> 0 .. MaxRetriesBound] : \E paths \in [Jobs -> CheckpointChoices] :
        Registered(1, retries, [j \in Jobs |-> {}], {}, FALSE, TRUE, paths)

ManifestSpec == ManifestInit /\ [][RunNext]_vars

\* One worker, job 1 with one retry and job 2 with none, no dependencies,
\* and the attempts and failures of each job counted.
RefireInit == Configured(1, [j \in Jobs |-> MaxRetries(j)], [j \in Jobs |-> {}], {}, FALSE, TRUE)

\* A trigger fire of job j, as often as the job's budget of attempts and one
\* more dispatch allow.
Refire(j) ==
    /\ hist.attempts[j] <= jobs[j].max_retries + 1
    /\ schedule_job(j)

\* Jobs fired again and again and run to their end.
RefireNext ==
    \/ \E j \in triggers : Refire(j)
    \/ \E w \in WorkerIds : WorkerGet(w)
    \/ \E w \in WorkerIds : MonitorSucceeds(w)
    \/ \E w \in WorkerIds : MonitorFails(w)
    \/ \E w \in WorkerIds : BackoffDone(w)

RefireSpec == RefireInit /\ [][RefireNext]_vars

\* Jobs are unregistered while the scheduler runs.  The trigger source fires
\* only its own jobs; a fire that was already under way when its job was
\* removed still calls _schedule_job.
RemoveNext ==
    \/ Next
    \/ \E j \in Jobs : remove_scheduled_job(j)
    \/ \E j \in Jobs \ scheduled_jobs : schedule_job(j)

RemoveSpec == FairInit /\ [][RemoveNext]_vars

\* One worker; job 1 waits for job 2, which has the higher priority.
DependentInit == Started(1, [j \in Jobs |-> IF j = 1 THEN {2} ELSE {}], {})

\* Trigger fires and the worker: no run-now, no timeout, no lock expiry.
FireNext ==
    \/ \E j \in triggers : schedule_job(j)
    \/ \E w \in WorkerIds : WorkerGet(w)
    \/ \E w \in WorkerIds : MonitorSucceeds(w)
    \/ \E w \in WorkerIds : MonitorFails(w)
    \/ \E w \in WorkerIds : BackoffDone(w)

DependentSpec == DependentInit /\ [][FireNext]_vars

\* One worker; each job lists the other as its dependency.
CycleInit == Started(1, [j \in Jobs |-> Jobs \ {j}], {})

CycleSpec == CycleInit /\ [][Next]_vars

\* The orchestrator's own deployment (main, orchestrator.py:527-560) with a
\* database: self.jobs is empty, the table holds a pending row for each job
\* (create_job, api.py:88-135); no scheduler runs.
PollInit ==
    /\ max_workers = 1
    /\ jobs = [j \in {} |-> TrainingJob(0)]
    /\ scheduled_jobs = {}
    /\ triggers = {}
    /\ dependencies = [j \in {} |-> {}]
    /\ running_jobs = {}
    /\ job_queue = EmptyBag
    /\ lock = [j \in Jobs |-> {}]
    /\ pc = [w \in WorkerIds |-> "get"]
    /\ cur = [w \in WorkerIds |-> {}]
    /\ sleeping = [w \in WorkerIds |-> 0]
    /\ database_enabled = TRUE
    /\ db = [j \in Jobs |-> TrainingJob(MaxRetries(j))]
    /\ shutdown = "no"
    /\ tasks = EmptyBag
    /\ job_args = [j \in Jobs |-> [command |-> Command, checkpoint_path |-> CheckpointPath(j)]]
    /\ manifest = [j \in Jobs |-> << >>]
    /\ hist = [on |-> FALSE, attempts |-> [j \in Jobs |-> 0], failures |-> [j \in Jobs |-> 0],
             notified |-> [j \in Jobs |-> 0], leaked |-> 0, disabled |-> {}]
    /\ event = NoEvent

\* The loop of schedule_jobs and the tasks it creates; a load or a save may
\* fail at any time.
PollNext ==
    \E load_ok \in BOOLEAN : \E save_ok \in BOOLEAN :
        \/ schedule_jobs(load_ok, save_ok)
        \/ \E t \in BagToSet(tasks) : TaskSucceeds(t, save_ok)
        \/ \E t \in BagToSet(tasks) : TaskFails(t, save_ok)
        \/ \E t \in BagToSet(tasks) : TaskBackoffDone(t, save_ok)

PollSpec == PollInit /\ [][PollNext]_vars

\* One worker; errors may escape run_job.
FaultNext ==
    \/ Next
    \/ \E w \in WorkerIds : RunJobRaises(w)

FaultSpec == FairInit /\ [][FaultNext]_vars /\ Fairness

\* Two workers, trigger fires, and every way an execution ends: success,
\* failure, timeout, an escaping error, and the cancellation of the worker
\* by stop().
ExitNext ==
    \/ \E j \in triggers : schedule_job(j)
    \/ \E w \in WorkerIds : WorkerGet(w)
    \/ \E w \in WorkerIds : MonitorSucceeds(w)
    \/ \E w \in WorkerIds : MonitorFails(w)
    \/ \E w \in WorkerIds : BackoffDone(w)
    \/ \E w \in WorkerIds : Timeout(w)
    \/ \E j \in Jobs : LockExpires(j)
    \/ \E w \in WorkerIds : RunJobRaises(w)
    \/ stop
    \/ \E w \in WorkerIds : Cancelled(w)

ExitSpec == Init /\ [][ExitNext]_vars

\* Each job is fired once, and the scheduler is stopped at any moment.
StopNext ==
    \/ RunNext
    \/ stop
    \/ \E w \in WorkerIds : Cancelled(w)
    \/ JoinReturns

\* A cancelled task is resumed with its CancelledError, and join() returns
\* when the count of unfinished entries is zero.
StopFairness ==
    /\ \A w \in AllWorkerIds : WF_vars(w \in WorkerIds /\ Cancelled(w))
    /\ WF_vars(JoinReturns)

StopSpec == RunInit /\ [][StopNext]_vars /\ Fairness /\ StopFairness

\* The value a JobUpdate gives max_retries here.
UpdateChoices == {0}

\* The scheduler and the API's update and delete on the same table.
CrudNext ==
    \/ Next
    \/ \E j \in RequestIds : \E retries \in UpdateChoices : update_job(j, retries)
    \/ \E j \in RequestIds : delete_job(j)

CrudSpec == ApiInit /\ [][CrudNext]_vars

\* ------------------------------------------------------------ the claims
\* The dependencies of job j that are unknown or not Completed.
Unmet(j) == {d \in dependencies[j] : d \notin DOMAIN jobs \/ jobs[d].status # "completed"}

\* How many entries of job j the queue q holds.
CountOf(q, j) == BagCardinality([e \in {x \in BagToSet(q) : x.job = j} |-> q[e]])

\* The last callback moved nothing but the history.
OnlyEventChanged ==
    UNCHANGED <<max_workers, jobs, scheduled_jobs, triggers, dependencies, running_jobs,
                job_queue, lock, pc, cur, sleeping, db, database_enabled, shutdown, hist, tasks, job_args, manifest>>

\* The step is a trigger fire that added exactly one entry, for the job fired.
FireEnqueued ==
    \E e \in BagToSet(job_queue') :
        /\ e.job = event'.id
        /\ job_queue' = Put(job_queue, e)

\* C1: at most one execution attempt of a job is in progress at any time,
\* over all workers that share the lock store, the lock's expiry included.
C1_OneAttemptPerJob ==
    \A w1 \in WorkerIds : \A w2 \in WorkerIds :
        (w1 # w2 /\ cur[w1] # {}) => cur[w1] # cur[w2]

\* C2: every job's retry_count stays within 0 .. max_retries.
C2_RetryCountInRange ==
    \A j \in Jobs : jobs[j].retry_count >= 0 /\ jobs[j].retry_count <= jobs[j].max_retries

\* A job that used its whole retry budget and failed.
C2_Witness ==
    \E j \in Jobs :
        /\ jobs[j].max_retries > 0
        /\ jobs[j].retry_count = jobs[j].max_retries
        /\ jobs[j].status = "failed"

\* The order of the claim on entries: higher priority first, then the
\* earlier enqueue time, then the smaller job id.
DispatchBefore(e, f) ==
    \/ e.level > f.level
    \/ e.level = f.level /\ e.time < f.time
    \/ e.level = f.level /\ e.time = f.time /\ e.job <= f.job

\* C3: every entry a worker takes off the queue comes, in the order
\* (-priority, enqueue_time, job_id), before every entry it leaves there.
C3_DequeueLeast ==
    [][\A e \in BagToSet(job_queue) :
          CopiesIn(e, job_queue') < CopiesIn(e, job_queue)
              => \A f \in BagToSet(job_queue') : DispatchBefore(e, f)]_vars

\* A worker has just taken a Critical entry and left an entry of lower
\* priority that was enqueued earlier.
C3_Witness ==
    \E e \in event.started : \E f \in BagToSet(job_queue) :
        e.level = CRITICAL /\ f.level < CRITICAL /\ f.time < e.time

\* C4: a Scheduler never has more than max_workers jobs in execution: neither
\* the RunningSet nor the set of workers that are executing a job is larger.
C4_RunningAtMostMaxWorkers ==
    /\ Cardinality(running_jobs) <= max_workers
    /\ Cardinality({w \in DOMAIN cur : cur[w] # {}}) <= max_workers

\* All workers are busy and a fire has just been queued behind them.
C4_Witness ==
    /\ Cardinality(running_jobs) = max_workers
    /\ event.op \in {"fire", "runnow"}
    /\ job_queue # EmptyBag

\* C5 as stated: a fire that arrives while the RunningSet has max_workers
\* members adds no entry to the queue.
C5_FullFireDropped ==
    [][(event'.op = "fire" /\ Cardinality(running_jobs) >= max_workers)
          => job_queue' = job_queue]_vars

\* C5 amended: a fire for a scheduled job whose dependencies are Completed
\* adds one entry for it also while the RunningSet has max_workers members.
C5_FullFireQueued ==
    [][(/\ event'.op = "fire"
        /\ Cardinality(running_jobs) >= max_workers
        /\ event'.id \in scheduled_jobs
        /\ Unmet(event'.id) = {})
          => FireEnqueued]_vars

\* A fire has just been queued while every worker was busy.
C5_Witness ==
    /\ event.op = "fire"
    /\ Cardinality(running_jobs) = max_workers
    /\ \E e \in BagToSet(job_queue) :
           e.job = event.id /\ e.level = Priority(e.job)

\* C6 as stated: a fire for a job that is in the RunningSet as often as its
\* max_concurrent allows adds no entry, and no worker starts a job that
\* another worker is still executing.
C6_CappedFireDropped ==
    [][/\ (/\ event'.op = "fire"
           /\ Cardinality({jid \in running_jobs : jid = event'.id}) >= MaxConcurrent(event'.id))
             => job_queue' = job_queue
       /\ event'.op = "worker"
             => \A e \in event'.started : \A w \in WorkerIds \ {event'.id} :
                    cur[w] # {e.job}]_vars

\* C6 amended: such a fire is queued like any other; the worker that starts
\* a job does so holding the job's lock, and never starts a job whose entry
\* it has just discarded because the lock was held.
C6_CappedFireQueued ==
    [][/\ (/\ event'.op = "fire"
           /\ Cardinality({jid \in running_jobs : jid = event'.id}) >= MaxConcurrent(event'.id)
           /\ event'.id \in scheduled_jobs
           /\ Unmet(event'.id) = {})
             => FireEnqueued
       /\ event'.op = "worker"
             => \A e \in event'.started :
                    /\ lock'[e.job] = {event'.id}
                    /\ e.job \in running_jobs'
                    /\ e.job \notin event'.lockfail]_vars

\* A fire has just been queued for a job that is in the RunningSet and
\* whose max_concurrent is 1.
C6_Witness ==
    /\ event.op = "fire"
    /\ event.id \in running_jobs
    /\ MaxConcurrent(event.id) = 1
    /\ CountOf(job_queue, event.id) > 0

\* C7: a fire for a job with a dependency that is unknown or not Completed
\* enqueues nothing and leaves every job and all scheduler state as it was.
C7_UnmetFireDropped ==
    [][(event'.op = "fire" /\ Unmet(event'.id) # {}) => OnlyEventChanged]_vars

\* A fire has just been dropped for a Pending job whose only unmet
\* dependency is one the orchestrator does not know.
C7_Witness ==
    /\ event.op = "fire"
    /\ Unmet(event.id) = {UnknownJob}
    /\ jobs[event.id].status = "pending"
    /\ CountOf(job_queue, event.id) = 0

\* Job j is Pending and its entry is the next a worker will take, a worker
\* is waiting in get() and the job's lock is free.
ReadyToDispatch(j) ==
    /\ j \in scheduled_jobs
    /\ jobs[j].status = "pending"
    /\ job_queue # EmptyBag
    /\ Least(job_queue).job = j
    /\ lock[j] = {}
    /\ \E w \in WorkerIds : pc[w] = "get"

\* An entry that is dispatched before those of job j has come in ahead.
Overtaken(j) ==
    /\ CountOf(job_queue, j) > 0
    /\ Least(job_queue).job # j

\* C8: a fire for a scheduled job whose dependencies are all Completed adds
\* an entry for it; and a Pending job whose entry is next, with a worker idle
\* and its lock free, becomes Running, unless an entry that goes before it
\* is enqueued first.
C8_EligibleFireRuns ==
    /\ [][(/\ event'.op = "fire"
           /\ event'.id \in scheduled_jobs
           /\ Unmet(event'.id) = {})
             => FireEnqueued]_vars
    /\ \A j \in Jobs :
           ReadyToDispatch(j) ~> (jobs[j].status = "running" \/ Overtaken(j))

\* Job 2, which depends on job 1, has just been started from the entry of a
\* fire, job 1 being Completed.
C8_Witness ==
    /\ event.op = "worker"
    /\ \E e \in event.started : e.job = 2 /\ e.level = Priority(2)
    /\ dependencies[2] = {1}
    /\ jobs[1].status = "completed"
    /\ jobs[2].status = "running"

\* C9 as stated: a run-now for a job with an unmet dependency, or whose
\* concurrency check fails, adds no entry.
C9_RunNowGated ==
    [][(event'.op = "runnow" /\ (Unmet(event'.id) # {} \/ ~check_concurrency(event'.id)))
          => job_queue' = job_queue]_vars

\* C9 amended: a run-now for a scheduled job makes no check: it always adds
\* one entry for the job, with Critical priority.
C9_RunNowAlwaysQueued ==
    [][(event'.op = "runnow" /\ event'.id \in scheduled_jobs)
          => \E e \in BagToSet(job_queue') :
                 /\ job_queue' = Put(job_queue, e)
                 /\ e.job = event'.id
                 /\ e.key = 0 - CRITICAL
                 /\ e.level = CRITICAL]_vars

\* A run-now has just been queued for a job with an unmet dependency.
C9_Witness ==
    /\ event.op = "runnow"
    /\ Unmet(event.id) # {}
    /\ \E e \in BagToSet(job_queue) :
           e.job = event.id /\ e.level = CRITICAL

\* C10: a worker that fails to get the lock for a dequeued entry does not
\* execute the job, does not put the entry back, leaves the job's record and
\* its RunningSet membership alone, and goes on: it stops only at an entry
\* it can run or at an empty queue.
C10_LockFailDiscards ==
    [][event'.op = "worker"
          => \A j \in event'.lockfail :
                 /\ \A e \in event'.started : e.job # j
                 /\ CountOf(job_queue', j) < CountOf(job_queue, j)
                 /\ jobs'[j] = jobs[j]
                 /\ (j \in running_jobs') = (j \in running_jobs)
                 /\ event'.started = {} => job_queue' = EmptyBag]_vars

\* A worker has just discarded an entry for the lock and started the next.
C10_Witness ==
    /\ event.op = "worker"
    /\ event.lockfail # {}
    /\ event.started # {}

\* C11: a lock left behind by a crashed worker expires, and from then on a
\* worker that takes an entry of the job sets the lock and runs the job: the
\* job is not blocked forever.
C11_StaleLockExpires ==
    /\ \A j \in Jobs : (lock[j] = {CrashedWorker}) ~> (lock[j] = {})
    /\ [][\A j \in Jobs :
             (/\ event'.op = "worker"
              /\ pc[event'.id] = "get"
              /\ job_queue # EmptyBag
              /\ Least(job_queue).job = j
              /\ j \in scheduled_jobs
              /\ lock[j] = {})
                => (/\ event'.started = {Least(job_queue)}
                    /\ lock'[j] = {event'.id}
                    /\ jobs'[j].status = "running")]_vars

\* A worker is executing a job whose lock was left behind by a crashed
\* worker when the scheduler started (CrashInit), and holds the lock.
C11_Witness ==
    \E w \in WorkerIds : \E j \in Jobs :
        /\ cur[w] = {j}
        /\ lock[j] = {w}
        /\ jobs[j].status = "running"

\* The status of job j changes in this step.
StatusChanges(j) == j \in DOMAIN jobs /\ jobs'[j].status # jobs[j].status

C14_FailedAtBudget ==
    \A j \in Jobs : jobs[j].status = "failed" => jobs[j].retry_count = jobs[j].max_retries

\* C14: a Failed job has used its whole retry budget, unless it was failed
\* by the scheduler's timeout, which fails the job whatever its retry count
\* and leaves the message "Job timeout exceeded".
C14_FailedAtBudgetOrTimeout ==
    \A j \in Jobs : jobs[j].status = "failed" =>
        \/ jobs[j].retry_count = jobs[j].max_retries
        \/ jobs[j].error_message = JobTimeoutExceeded

\* A job with a retry budget has failed on the budget.
C14_Witness ==
    \E j \in Jobs :
        /\ jobs[j].status = "failed" /\ jobs[j].error_message = JobFailed
        /\ jobs[j].max_retries > 0 /\ jobs[j].retry_count = jobs[j].max_retries

\* The job the worker w is executing.
JobOf(w) == CHOOSE x \in cur[w] : TRUE

\* C15 as stated: a timeout is handled like a failure reported by the
\* backend, so it consumes one retry while the budget lasts: the job goes to
\* Retrying with one more retry counted, and to Failed only at the budget.
C15_TimeoutConsumesRetry ==
    [][\A w \in WorkerIds : Timeout(w) =>
          IF jobs[JobOf(w)].retry_count < jobs[JobOf(w)].max_retries
          THEN /\ jobs'[JobOf(w)].retry_count = jobs[JobOf(w)].retry_count + 1
               /\ jobs'[JobOf(w)].status = "retrying"
          ELSE jobs'[JobOf(w)].status = "failed"]_vars

\* C15: the timeout bounds the whole run of the job, its retries and backoff
\* sleeps included, and ends it: the job is Failed with the message
\* "Job timeout exceeded" at once, whatever is left of the budget, no retry
\* is counted, and the worker goes on to its next entry (which may be a
\* later entry of the same job).
C15_TimeoutFailsJob ==
    [][\A w \in WorkerIds : Timeout(w) =>
          /\ jobs'[JobOf(w)].retry_count = jobs[JobOf(w)].retry_count
          /\ jobs'[JobOf(w)].error_message = JobTimeoutExceeded
          /\ \/ jobs'[JobOf(w)].status = "failed"
             \/ jobs'[JobOf(w)].status = "running" /\ cur'[w] = cur[w]
          /\ jobs'[JobOf(w)].completed_at = jobs[JobOf(w)].completed_at]_vars

\* A job was failed by the timeout with budget left.
C15_Witness ==
    \E j \in Jobs :
        /\ jobs[j].status = "failed" /\ jobs[j].error_message = JobTimeoutExceeded
        /\ jobs[j].retry_count < jobs[j].max_retries

\* C16: while run_job sleeps before its n-th retry (n the retry count, the
\* retry just counted included), the delay is min(60 * 2^n, 3600) seconds:
\* 120, 240, 480, 960, 1920 and from the sixth retry on 3600, so it never
\* decreases with n and never exceeds 3600.
C16_BackoffDelay ==
    \A w \in WorkerIds : pc[w] = "sleep" =>
        LET n == jobs[JobOf(w)].retry_count
        IN  /\ n >= 1
            /\ sleeping[w] = IF n <= 5 THEN <<120, 240, 480, 960, 1920>>[n] ELSE 3600

\* run_job sleeps before the sixth retry, where the cap applies.
C16_Witness ==
    \E w \in WorkerIds :
        pc[w] = "sleep" /\ jobs[JobOf(w)].retry_count = 6 /\ sleeping[w] = 3600

\* C17: a job, run from retry_count 0, whose backend failed k times and then
\* succeeded is Completed with retry_count = k <= max_retries after k + 1
\* attempts, and with started_at and completed_at set.
C17_CompletedAfterFailures ==
    \A j \in Jobs : jobs[j].status = "completed" =>
        /\ jobs[j].retry_count = hist.failures[j]
        /\ hist.failures[j] <= jobs[j].max_retries
        /\ hist.attempts[j] = hist.failures[j] + 1
        /\ jobs[j].started_at /\ jobs[j].completed_at

\* A job has completed after two or more failed attempts.
C17_Witness ==
    \E j \in Jobs : jobs[j].status = "completed" /\ hist.failures[j] >= 2

\* C18: with a backend that fails every attempt, a job that has started
\* ends Failed; a Failed job has made exactly max_retries + 1 attempts, has
\* retry_count = max_retries and its error_message set, and stays Failed.
C18_AlwaysFailingTerminates ==
    /\ [](\A j \in Jobs : jobs[j].status = "failed" =>
              /\ hist.attempts[j] = jobs[j].max_retries + 1
              /\ hist.failures[j] = jobs[j].max_retries + 1
              /\ jobs[j].retry_count = jobs[j].max_retries
              /\ jobs[j].error_message = JobFailed)
    /\ \A j \in Jobs : (jobs[j].status = "running") ~> [](jobs[j].status = "failed")

\* A job with a budget of two or more retries has failed.
C18_Witness ==
    \E j \in Jobs :
        /\ jobs[j].status = "failed" /\ jobs[j].max_retries >= 2
        /\ hist.attempts[j] = jobs[j].max_retries + 1

\* C19: a manual retry is accepted (200) exactly when the job's row is
\* completed or failed; for a row in any other status it is answered with
\* a conflict (409), and the row and the job are left as they were.
C19_RetryOnlyWhenFinished ==
    [][(event'.op = "retry" /\ event'.id \in DOMAIN db) =>
          IF db[event'.id].status \in {"completed", "failed"}
          THEN event'.code = 200
          ELSE event'.code = 409 /\ db' = db /\ jobs' = jobs]_vars

\* A manual retry of a running job has just been refused.
C19_Witness ==
    /\ event.op = "retry" /\ event.code = 409
    /\ db[event.id].status = "running"

\* C20 as stated: an accepted manual retry leaves the row Pending with
\* retry_count 0 and started_at, completed_at and error_message cleared.
C20_RetryResetsJob ==
    [][(event'.op = "retry" /\ event'.code = 200) =>
          /\ db'[event'.id].status = "pending"
          /\ db'[event'.id].retry_count = 0
          /\ ~db'[event'.id].started_at
          /\ ~db'[event'.id].completed_at
          /\ db'[event'.id].error_message = NoMessage]_vars

C22_WorkerSurvives ==
    /\ [][\A w \in WorkerIds : RunJobRaises(w) =>
              /\ pc'[w] \in {"get", "monitor"}
              /\ pc'[w] = "get" => job_queue' = EmptyBag /\ cur'[w] = {}
              /\ pc'[w] = "monitor" => cur'[w] # {} /\ event'.started # {}]_vars
    /\ (pc[FirstWorker] = "get" /\ job_queue # EmptyBag)
           ~> (job_queue = EmptyBag \/ pc[FirstWorker] = "monitor")

\* After an error escaped run_job, the worker is executing the next entry.
C22_Witness ==
    \E w \in WorkerIds : \E j \in Jobs :
        /\ pc[w] = "monitor" /\ cur[w] # {}
        /\ jobs[j].status = "retrying" /\ \A v \in WorkerIds : cur[v] # {j}

\* C23: a job is put in the running set in the step in which a worker
\* starts to execute it, and when the execution has ended, however it ended,
\* the worker has taken the job out of the set and deleted its lock: a job in
\* the running set is being executed by some worker, and a lock that names a
\* worker is the lock of the job that worker is executing.
C23_RunningSetFollowsExecution ==
    /\ [][\A w \in WorkerIds : (event'.op = "worker" /\ event'.id = w /\ event'.started # {})
              => cur'[w] \subseteq running_jobs']_vars
    /\ [](\A j \in running_jobs : \E w \in WorkerIds : cur[w] = {j})
    /\ [](\A j \in Jobs : \A w \in WorkerIds : lock[j] = {w} => cur[w] = {j})

\* A worker was cancelled while it executed a job: the job is still Running,
\* it is not in the running set and its lock is gone.
C23_Witness ==
    /\ event.op = "cancelled"
    /\ \E j \in Jobs : /\ jobs[j].status = "running" /\ j \notin running_jobs /\ lock[j] = {}
                        /\ \A w \in WorkerIds : cur[w] # {j}

\* C24: once stop() waits in queue.join(), the join returns.
C24_StopTerminates ==
    (shutdown = "joining") ~> (shutdown = "stopped")

\* C26: a trigger fire of a job whose last registration had enabled ==
\* false enqueues nothing, also when the job was registered as enabled
\* before.
C26_DisabledNeverEnqueued ==
    [][(event'.op = "fire" /\ event'.id \in hist.disabled) => job_queue' = job_queue]_vars

\* C27 as stated: two Pending jobs that list each other as dependencies are
\* never enqueued and never executed.
C27_CycleNeverRuns ==
    /\ job_queue = EmptyBag
    /\ \A j \in Jobs : jobs[j].status = "pending"

\* C27: of two jobs that list each other as dependencies, a trigger fire
\* enqueues a job only when the other one is Completed; as long as neither
\* has ever finished, an entry is put in the queue only by a run-now
\* request, which does not look at dependencies, and every entry in the
\* queue is a run-now entry.
C27_CycleBrokenOnlyByRunNow ==
    /\ [][(event'.op = "fire" /\ job_queue' # job_queue)
              => \A d \in dependencies[event'.id] : jobs[d].status = "completed"]_vars
    /\ [][((\A j \in Jobs : ~jobs[j].completed_at) /\ job_queue' # job_queue
               /\ BagCardinality(job_queue') > BagCardinality(job_queue))
              => event'.op = "runnow"]_vars
    /\ []((\A j \in Jobs : ~jobs[j].completed_at)
              => \A e \in BagToSet(job_queue) : e.level = CRITICAL)

\* A fire of a job of the cycle has just been dropped while the other job,
\* started by a run-now request, is running.
C27_Witness ==
    /\ event.op = "fire"
    /\ \E j \in Jobs : jobs[j].status = "running" /\ ~jobs[j].completed_at
    /\ jobs[event.id].status = "pending"
    /\ \A e \in BagToSet(job_queue) : e.job # event.id

\* C28: when two workers execute distinct jobs at once, a step changes only
\* the job of the worker that takes it, and each job ends as it would alone
\* with the same backend outcomes: Completed after k failures with
\* retry_count = k <= max_retries and k + 1 attempts, or Failed after
\* max_retries + 1 failed attempts with retry_count = max_retries.
C28_NoInterference ==
    /\ [][\A j \in Jobs : jobs'[j] # jobs[j] =>
              /\ event'.op = "worker"
              /\ cur[event'.id] = {j} \/ cur'[event'.id] = {j}]_vars
    /\ [](\A j \in Jobs :
              /\ jobs[j].status = "completed" =>
                    /\ jobs[j].retry_count = hist.failures[j]
                    /\ hist.failures[j] <= jobs[j].max_retries
                    /\ hist.attempts[j] = hist.failures[j] + 1
              /\ jobs[j].status = "failed" =>
                    /\ jobs[j].retry_count = jobs[j].max_retries
                    /\ hist.failures[j] = jobs[j].max_retries + 1
                    /\ hist.attempts[j] = jobs[j].max_retries + 1)

\* Two workers are executing two jobs, each of which has failed before.
C28_Witness ==
    \E w, v \in WorkerIds :
        /\ cur[w] # {} /\ cur[v] # {} /\ cur[w] # cur[v]
        /\ \A j \in cur[w] \cup cur[v] : hist.failures[j] >= 1

\* C29: every step that puts a job into Running sets started_at and clears
\* error_message, and a job that is Completed without any failure counted
\* against it has no error_message.
C29_DispatchClearsError ==
    /\ [][\A j \in Jobs :
              (jobs[j].status # "running" /\ jobs'[j].status = "running") =>
                  /\ jobs'[j].started_at
                  /\ jobs'[j].error_message = NoMessage]_vars
    /\ [](\A j \in Jobs :
              (jobs[j].status = "completed" /\ jobs[j].retry_count = 0) =>
                  jobs[j].error_message = NoMessage)

\* C30: a job whose status is Completed or Failed has completed_at set.
C30_TerminalHasCompletedAt ==
    \A j \in Jobs :
        jobs[j].status \in {"completed", "failed"} => jobs[j].completed_at

\* C25: a load or a save that fails or has no effect changes nothing for
\* the running process: after every cycle of the loop the status self.jobs
\* shows for a job that is being executed is the status its run_job has
\* set, the loop starts no job that is not Pending in memory, and no job
\* runs in two run_job tasks.
C25_MemoryStaysAuthoritative ==
    /\ [](event.op = "poll" =>
              \A t \in BagToSet(tasks) : jobs[t.id].status = t.job.status)
    /\ [][event'.op = "poll" =>
              \A j \in event'.started :
                  j \in DOMAIN jobs => jobs[j].status = "pending"]_vars
    /\ [](\A j \in Jobs : RunJobTasks(j) <= 1)

\* C31: every entry a worker has taken from the queue is marked done, so
\* whenever the queue is empty and every worker waits in get() the queue
\* counts no unfinished entry.
C31_EveryEntryMarkedDone ==
    (job_queue = EmptyBag /\ \A w \in WorkerIds : pc[w] = "get") => unfinished_tasks = 0

\* C32 as claimed: every step in which run_job changes the status of a job,
\* the change to Running included, calls notify once for that job.
C32_NotifiedOnEveryTransition ==
    [][\A j \in Jobs :
          jobs'[j].status # jobs[j].status =>
              hist'.notified[j] = hist.notified[j] + 1]_vars

\* C32: run_job calls notify once for every change of a job's status to
\* Retrying, Completed or Failed, and not at all when it sets Running.
C32_NotifiedWhenAttemptEnds ==
    [][\A j \in Jobs :
          hist'.notified[j] =
              IF /\ jobs'[j].status # jobs[j].status
                 /\ jobs'[j].status \in {"retrying", "completed", "failed"}
              THEN hist.notified[j] + 1
              ELSE hist.notified[j]]_vars

\* A job is Running in its second attempt: it was set Running twice and
\* Retrying once, and notify was called once.
C32_Witness ==
    \E j \in Jobs :
        /\ jobs[j].status = "running" /\ hist.attempts[j] = 2
        /\ hist.notified[j] = 1

\* C33: the row of a job is written after every change of its status made
\* during execution, the change to Failed on timeout included, so between
\* steps the status in the table is the status in memory.
C33_PersistedAfterEveryTransition ==
    \A j \in Jobs : db[j].status = jobs[j].status

\* The command m carries the instruction to resume from the path p.
Resumes(m, p) == \E i \in 1 .. (Len(m) - 1) : m[i] = ResumeFlag /\ m[i + 1] = p

\* C34: the manifest built for an attempt carries the resume instruction
\* with the job's checkpoint_path exactly when checkpoint_path is set (a
\* path, not None or empty) and retry_count > 0 at that attempt; the first
\* attempt of a fresh job never resumes, every retry of a job with a
\* checkpoint_path does, the manifest starts with the job's command, and the
\* job's own command is never changed.
C34_ResumeOnRetryOnly ==
    /\ [][\A j \in Jobs :
              (jobs[j].status # "running" /\ jobs'[j].status = "running") =>
                  /\ Resumes(manifest'[j], job_args[j].checkpoint_path)
                        <=> (Truthy(job_args[j].checkpoint_path) /\ jobs'[j].retry_count > 0)
                  /\ Len(manifest'[j]) >= Len(Command)
                  /\ SubSeq(manifest'[j], 1, Len(Command)) = Command
                  /\ Len(manifest'[j]) \in {Len(Command), Len(Command) + 2}]_vars
    /\ [](\A j \in Jobs :
              /\ hist.attempts[j] = 1 => ~Resumes(manifest[j], job_args[j].checkpoint_path)
              /\ (hist.attempts[j] >= 2 /\ Truthy(job_args[j].checkpoint_path)) =>
                     Resumes(manifest[j], job_args[j].checkpoint_path)
              /\ job_args[j].command = Command)

\* A job with a checkpoint path is in its second attempt, and its manifest
\* ends with the resume instruction.
C34_Witness ==
    \E j \in Jobs :
        /\ jobs[j].status = "running" /\ jobs[j].retry_count = 1
        /\ Truthy(job_args[j].checkpoint_path)
        /\ manifest[j] = Command \o <<ResumeFlag, job_args[j].checkpoint_path>>

\* C35: a job enters the running set only in a step in which a worker has
\* set the job's lock and starts to execute it, it leaves the set only in a
\* step that deletes the job's lock, and while it is in the set a worker that
\* has set the lock is still executing it.
C35_RunningSetUnderLock ==
    /\ [][\A j \in Jobs :
              (j \notin running_jobs /\ j \in running_jobs') =>
                  /\ event'.op = "worker"
                  /\ lock'[j] = {event'.id}
                  /\ cur'[event'.id] = {j}]_vars
    /\ [][\A j \in Jobs :
              (j \in running_jobs /\ j \notin running_jobs') => lock'[j] = {}]_vars
    /\ [](\A j \in running_jobs : \E w \in WorkerIds : cur[w] = {j} /\ pc[w] # "get")

\* A worker has just set the lock of a job and put it in the running set.
C35_Witness ==
    \E j \in Jobs : \E w \in WorkerIds :
        /\ event.op = "worker" /\ event.id = w /\ event.started # {}
        /\ j \in running_jobs /\ lock[j] = {w} /\ cur[w] = {j}

\* C36: a worker's release deletes the lock of a job only when that worker
\* holds it: a step of a worker never takes away a lock another worker holds.
C36_ReleaseOnlyByHolder ==
    [][\A j \in Jobs : \A v \in WorkerIds :
          (event'.op = "worker" /\ lock[j] = {v} /\ lock'[j] # {v}) => event'.id = v]_vars

\* C37: when a worker starts to execute a job, every dependency of the job
\* is Completed at that moment.
C37_DependenciesMetAtStart ==
    [][event'.op = "worker" =>
          \A e \in event'.started : \A d \in dependencies[e.job] :
              d \in DOMAIN jobs /\ jobs'[d].status = "completed"]_vars

\* C38: no step of the scheduler or of run_job decreases a job's
\* retry_count; the count changes only in a step into Retrying, which needs
\* retry_count < max_retries and adds one, so it never exceeds max_retries
\* over any sequence of fires; and a failure of a job with retry_count =
\* max_retries makes the job Failed in that step (in which the worker may go
\* on to start a further queued entry of the job).
C38_RetriesStayConsumed ==
    /\ [][\A j \in Jobs : jobs'[j].retry_count >= jobs[j].retry_count]_vars
    /\ [][\A j \in Jobs :
            jobs'[j].retry_count # jobs[j].retry_count =>
                /\ jobs[j].retry_count < jobs[j].max_retries
                /\ jobs'[j].retry_count = jobs[j].retry_count + 1
                /\ jobs'[j].status = "retrying"]_vars
    /\ [][\A j \in Jobs :
            (/\ jobs[j].retry_count = jobs[j].max_retries
             /\ hist'.failures[j] # hist.failures[j]) =>
                /\ jobs'[j].completed_at
                /\ \/ jobs'[j].status = "failed"
                   \/ jobs'[j].status = "running" /\ \E e \in event'.started : e.job = j]_vars
    /\ [](\A j \in Jobs : jobs[j].retry_count <= jobs[j].max_retries)

\* A job whose first dispatch used up its one retry has been fired again
\* and is Failed after a single further attempt.
C38_Witness ==
    \E j \in Jobs :
        /\ jobs[j].max_retries = 1
        /\ jobs[j].retry_count = 1
        /\ jobs[j].status = "failed"
        /\ hist.attempts[j] = 3
        /\ hist.failures[j] = 3

\* C39: once a job has been removed with remove_scheduled_job, no worker
\* starts it; a worker step that is not the end of a run of the job leaves
\* the job and its lock as they are while entries of the job leave the
\* queue; fires and run-now requests for it enqueue nothing; and the removal
\* itself leaves the job, the queue, the locks, the running set and every
\* worker as they are.
C39_RemovedJobNotStarted ==
    /\ [][\A e \in event'.started : e.job \in scheduled_jobs]_vars
    /\ [][\A j \in Jobs \ scheduled_jobs :
            (event'.op = "worker" /\ cur[event'.id] # {j}) =>
                jobs'[j] = jobs[j] /\ lock'[j] = lock[j]]_vars
    /\ [][\A j \in Jobs \ scheduled_jobs :
            \A e \in BagToSet(job_queue') :
                e.job = j => CopiesIn(e, job_queue') <= CopiesIn(e, job_queue)]_vars
    /\ [][event'.op = "remove" =>
            UNCHANGED <<jobs, job_queue, lock, running_jobs, pc, cur, sleeping>>]_vars

\* A worker has been resumed for the queued entry of a removed job and has
\* started nothing: no job has run and the queue is empty.
C39_Witness ==
    /\ event.op = "worker"
    /\ event.started = {}
    /\ job_queue = EmptyBag
    /\ \A j \in Jobs : jobs[j].status = "pending" /\ lock[j] = {}
    /\ \E j \in Jobs : j \notin scheduled_jobs

\* C40: in the polling loop of schedule_jobs no job has two run_job tasks
\* in progress at once, whether or not the writes of its status took effect.
C40_OneRunPerJob == \A j \in Jobs : RunJobTasks(j) <= 1

\* C12: registering a job whose cron expression is malformed is rejected
\* and leaves the job unregistered: it is neither in the scheduled set nor
\* in the orchestrator's job map.
C12_MalformedRejected ==
    [][event'.op = "register_malformed"
          => (event'.id \notin scheduled_jobs' /\ event'.id \notin DOMAIN jobs')]_vars

\* A job whose registration failed on its schedule has become Completed:
\* run-now executed it, and it satisfies a dependency.
C12_RunsAfterFailedRegistration ==
    \E j \in scheduled_jobs \ triggers : jobs[j].status = "completed"

TypeOK ==
    /\ \A j \in DOMAIN jobs : jobs[j].status \in {"pending", "running", "completed", "failed", "retrying"}
    /\ running_jobs \subseteq Jobs
    /\ \A e \in BagToSet(job_queue) : e.time \in 0 .. MaxTime
====
